---------------------------- MODULE Spec2Model ----------------------------
(***************************************************************************)
(* A model of vent/alarm/alarm.py (class Alarm) and of                     *)
(* vent/io/devices/sensors.py (class Sensor and its variants AnalogSensor, *)
(* SFM3200 and SimSensor).                                                 *)
(*                                                                         *)
(* Alarm: the callers are threads; every read or write of a shared         *)
(* attribute (Alarm.id_counter, alarm.active, alarm.end_time) is one step, *)
(* so that every interleaving of the callers' reads and writes is a        *)
(* behaviour.  A sequential caller is the same model with one thread.      *)
(*                                                                         *)
(* Sensor: one sensor object and one caller; each action is a whole call   *)
(* of update(), get(), reset() or the data_length setter, with the device  *)
(* reading and the values of random() as its inputs.                       *)
(***************************************************************************)
EXTENDS Integers, Sequences, FiniteSets

\* ------------------------------------------------------------------ bounds
MaxAlarms == 2      \* Alarm objects constructed in one behaviour
MaxTime == 2        \* largest value time.time() returns
MaxUpdates == 3     \* update() calls made on the sensor
MaxCap == 2         \* largest data_length assigned

\* --------------------------------------------------------------- constants
Threads == {"t1", "t2"}
SeqThreads == {"t1"}
AlarmSeverity == {"OFF", "HIGH"}
AlarmType == {"HIGH_PRESSURE"}

\* Python's None and a present value, for an optional attribute
None == << >>
Some(v) == << v >>

\* ------------------------------------------------------------- arithmetic
\* Python floats are modelled as exact rationals << numerator, denominator >>
\* in lowest terms with a positive denominator; the 16-bit floats of the
\* observation array are the rationals np.float16 can hold, and a store
\* into the array rounds as IEEE 754 does.  << 1, 0 >> and << -1, 0 >> are
\* the infinities a store of a too large value leaves in the array.

Abs(n) == IF n < 0 THEN -n ELSE n

RECURSIVE GCD(_, _)
GCD(a, b) == IF b = 0 THEN a ELSE GCD(b, a % b)

Norm(n, d) ==
    LET g == GCD(Abs(n), Abs(d))
        s == IF d < 0 THEN -1 ELSE 1
    IN  << (s * n) \div g, (s * d) \div g >>

R(n) == << n, 1 >>
RAdd(x, y) == Norm(x[1] * y[2] + y[1] * x[2], x[2] * y[2])
RSub(x, y) == Norm(x[1] * y[2] - y[1] * x[2], x[2] * y[2])
RMul(x, y) == Norm(x[1] * y[1], x[2] * y[2])
RDiv(x, y) == Norm(x[1] * y[2], x[2] * y[1])
RLe(x, y) == x[1] * y[2] <= y[1] * x[2]
RLt(x, y) == x[1] * y[2] < y[1] * x[2]
RMin(x, y) == IF RLt(y, x) THEN y ELSE x
RMax(x, y) == IF RLt(x, y) THEN y ELSE x

\* 2^e as a rational, for any integer e
RPow2(e) == IF e >= 0 THEN << 2^e, 1 >> ELSE << 1, 2^(-e) >>

\* n / d (d > 0, n >= 0) rounded to the nearest integer, a tie to the even one
RoundHalfEven(n, d) ==
    LET fl == n \div d
        twice == 2 * (n - fl * d)
    IN  IF twice < d THEN fl
        ELSE IF twice > d THEN fl + 1
        ELSE IF fl % 2 = 0 THEN fl ELSE fl + 1

\* The exponent of the binary16 binade of a > 0: the e in -14..15 with
\* 2^e <= a < 2^(e+1); -14 below the normal range; 15 above it.
Float16Exponent(a) ==
    IF RLt(a, RPow2(-14)) THEN -14
    ELSE IF RLe(RPow2(15), a) THEN 15
    ELSE CHOOSE e \in -14..14 : RLe(RPow2(e), a) /\ RLt(a, RPow2(e + 1))

\* np.float16(x): x rounded to 11 significant bits, ties to even; values
\* that round beyond 65504 become an infinity.
Float16(x) ==
    LET sign == IF x[1] < 0 THEN -1 ELSE 1
        a == << Abs(x[1]), x[2] >>
        q == RPow2(Float16Exponent(a) - 10)
        m == RDiv(a, q)
        M == RoundHalfEven(m[1], m[2])
        r == RMul(R(M), q)
    IN  IF x[1] = 0 THEN R(0)
        ELSE IF Float16Exponent(a) = 15 /\ M >= 2048 THEN << sign, 0 >>
        ELSE << sign * r[1], r[2] >>

VARIABLES
    clock,          \* the last value time.time() returned
    id_counter,     \* Alarm.id_counter: the value next() returns next
    allocated,      \* history: the values next(Alarm.id_counter) returned, in order
    alarms,         \* the constructed Alarm objects, in order of construction
    pc,             \* each thread's position
    building,       \* each thread's Alarm under construction (self in __init__)
    target,         \* each thread's alarm in deactivate() (self), 0 when none
    endWrites,      \* history: per alarm, the number of writes of end_time by deactivate()
    deactivations,  \* history: per alarm, the number of writes of active that took it from True to False
    firstEnd,       \* history: per alarm, the value the first write of end_time wrote
    calls           \* history: per alarm, the number of deactivate() calls that have returned
                    \* (0, 1, or 2 for two and more)

alarmVars == << id_counter, allocated, alarms, pc, building, target,
                endWrites, deactivations, firstEnd, calls >>

VARIABLES
    kind,               \* the class of the sensor
    _data,              \* Sensor._data: the float16 array of observations
    _i,                 \* Sensor._i: the write cursor
    _data_length,       \* Sensor._data_length
    _last_timestamp,    \* Sensor._last_timestamp: -1 until an observation is stored
    offset_voltage,     \* AnalogSensor.offset_voltage  (None for the other classes)
    output_span,        \* AnalogSensor.output_span
    conversion_factor,  \* AnalogSensor.conversion_factor
    low,                \* SimSensor.low  (None for the other classes)
    high,               \* SimSensor.high
    nUpdates,           \* history: the number of update() calls made
    stored,             \* history: the values __store_last wrote since the array was last
                        \* replaced, in order
    last,               \* history: the last call: its name, what it returned or raised, the
                        \* value it read or returned, its number of _verify calls,
                        \* whether it called __store_last, the raw reading of an update()
                        \* and whether the device failed during it
    everTrue,           \* history: some update() has returned True
    okValue,            \* history: the value stored by the last update() that returned True
    replaced,           \* history: reset() or the data_length setter has been called
    resized,            \* history: the data_length setter has been called
    discarded           \* history: a call replaced an array whose data was not empty

sensorVars == << kind, _data, _i, _data_length, _last_timestamp,
                 offset_voltage, output_span, conversion_factor, low, high,
                 nUpdates, stored, last, everTrue, okValue, replaced, resized,
                 discarded >>

attributes == << kind, _data, _i, _data_length, _last_timestamp,
                 offset_voltage, output_span, conversion_factor, low, high >>

\* AnalogSensor: a construction and an automatic calibration
VARIABLES
    kwargs,             \* the fields a caller passes to AnalogSensor(adc, **kwargs)
    built,              \* None, or what the construction gave: an exception or the
                        \* attributes of the new sensor
    calib               \* calibrate(): where the call is, the updates it has made
                        \* and the exception that left it

analogVars == << kwargs, built, calib >>

\* time.time(): the clock does not go back
TimeValues == { t \in {clock, clock + 1} : t <= MaxTime }

NoAlarm == [id |-> -1, alarm_type |-> "", severity |-> "", start_time |-> None]

\* itertools.count.__next__: the counter after one next()
NextCountStale(c) == c
NextCount(c) == c + 1

\* Alarm.__init__, line 42: self.id = next(Alarm.id_counter).  next() on an
\* itertools.count is one indivisible step of the interpreter.
Alarm_init_id(t) ==
    /\ pc[t] = "idle"
    /\ UNCHANGED << sensorVars, analogVars >>
    /\ Len(allocated) < MaxAlarms
    /\ \E ty \in AlarmType, sev \in AlarmSeverity, st \in {None, Some(0)} :
          building' = [building EXCEPT ![t] =
                          [id |-> id_counter, alarm_type |-> ty,
                           severity |-> sev, start_time |-> st]]
    /\ id_counter' = NextCount(id_counter)
    /\ allocated' = Append(allocated, id_counter)
    /\ pc' = [pc EXCEPT ![t] = "init"]
    /\ UNCHANGED << clock, alarms, target, endWrites, deactivations, firstEnd, calls >>

\* Alarm.__init__, lines 56-58: active, unless the severity is OFF
InitiallyActiveAlways(severity) == TRUE
InitiallyActive(severity) == IF severity = "OFF" THEN FALSE ELSE TRUE

\* Alarm.__init__, lines 44-64: the attributes of the new object
Alarm_init_fields(t) ==
    /\ pc[t] = "init"
    /\ UNCHANGED << sensorVars, analogVars >>
    /\ \E now \in (IF building[t].start_time = None THEN TimeValues ELSE {clock}) :
          /\ clock' = now
          /\ alarms' = Append(alarms,
                 [id |-> building[t].id,
                  alarm_type |-> building[t].alarm_type,
                  severity |-> building[t].severity,
                  start_time |-> IF building[t].start_time = None
                                 THEN now ELSE building[t].start_time[1],
                  active |-> InitiallyActive(building[t].severity),
                  end_time |-> None])
    /\ endWrites' = Append(endWrites, 0)
    /\ deactivations' = Append(deactivations, 0)
    /\ firstEnd' = Append(firstEnd, None)
    /\ calls' = Append(calls, 0)
    /\ building' = [building EXCEPT ![t] = NoAlarm]
    /\ pc' = [pc EXCEPT ![t] = "idle"]
    /\ UNCHANGED << id_counter, allocated, target >>

\* The history counts the calls that returned as 0, 1, or 2 for two and more
Counted(n) == IF n < 2 THEN n + 1 ELSE n

\* Alarm.deactivate, line 94: the test of self.active
StillActiveAlways(a) == TRUE
StillActive(a) == alarms[a].active

\* Alarm.deactivate, lines 94-95: if not self.active: return
deactivate_test(t) ==
    /\ pc[t] = "idle"
    /\ UNCHANGED << sensorVars, analogVars >>
    /\ \E a \in 1..Len(alarms) :
          IF StillActive(a)
          THEN /\ target' = [target EXCEPT ![t] = a]
               /\ pc' = [pc EXCEPT ![t] = "end_time"]
               /\ UNCHANGED calls
          ELSE /\ calls' = [calls EXCEPT ![a] = Counted(@)]
               /\ UNCHANGED << target, pc >>
    /\ UNCHANGED << clock, id_counter, allocated, alarms, building,
                    endWrites, deactivations, firstEnd >>

\* Alarm.deactivate, line 97: self.end_time = time.time()
deactivate_end_time(t) ==
    /\ pc[t] = "end_time"
    /\ UNCHANGED << sensorVars, analogVars >>
    /\ \E now \in TimeValues :
          /\ clock' = now
          /\ alarms' = [alarms EXCEPT ![target[t]].end_time = Some(now)]
          /\ firstEnd' = [firstEnd EXCEPT ![target[t]] =
                             IF endWrites[target[t]] = 0 THEN Some(now) ELSE @]
    /\ endWrites' = [endWrites EXCEPT ![target[t]] = @ + 1]
    /\ pc' = [pc EXCEPT ![t] = "active"]
    /\ UNCHANGED << id_counter, allocated, building, target, deactivations, calls >>

\* Alarm.deactivate, line 98: self.active = False
deactivate_active(t) ==
    /\ pc[t] = "active"
    /\ UNCHANGED << sensorVars, analogVars >>
    /\ alarms' = [alarms EXCEPT ![target[t]].active = FALSE]
    /\ deactivations' = [deactivations EXCEPT ![target[t]] =
                            IF alarms[target[t]].active THEN @ + 1 ELSE @]
    /\ calls' = [calls EXCEPT ![target[t]] = Counted(@)]
    /\ target' = [target EXCEPT ![t] = 0]
    /\ pc' = [pc EXCEPT ![t] = "idle"]
    /\ UNCHANGED << clock, id_counter, allocated, building, endWrites, firstEnd >>


\* ----------------------------------------------------------- Sensor model
\* One Sensor object, driven by one caller: each action is one whole call.

\* Sensor._DEFAULT_STORED_OBSERVATIONS
DEFAULT_STORED_OBSERVATIONS == 128
\* AnalogSensor._DEFAULT_offset_voltage, _DEFAULT_output_span and the
\* 'conversion_factor' entry of _DEFAULT_CALIBRATION
DEFAULT_offset_voltage == 0
DEFAULT_output_span == 5
DEFAULT_conversion_factor == 1
\* SFM3200._FLOW_OFFSET, SFM3200._FLOW_SCALE_FACTOR
FLOW_OFFSET == 32768
FLOW_SCALE_FACTOR == 120
\* SimSensor.__init__'s defaults for low and high
DEFAULT_low == 0
DEFAULT_high == 100

SensorKinds == {"AnalogSensor", "SFM3200", "SimSensor"}

\* The calibrations an AnalogSensor is constructed with: the defaults, and
\* one given as offset_voltage=, output_span=, conversion_factor=
Calibrations ==
    { [offset_voltage |-> R(DEFAULT_offset_voltage),
       output_span |-> R(DEFAULT_output_span),
       conversion_factor |-> R(DEFAULT_conversion_factor)],
      [offset_voltage |-> << 1, 2 >>, output_span |-> R(4), conversion_factor |-> R(2)] }

\* The raw voltages adc.read_conversion() delivers
AdcVoltages == { R(-1), R(0), << 1, 2 >>, << 5, 2 >>, R(6) }
\* The 16-bit words be16_to_native(read_device(4)) delivers
FlowWords == { 0, 120, 32767 }
\* The values random() returns, all in [0, 1)
Randoms == { R(0), << 1, 2 >>, << 1023, 1024 >> }

Call(op, ret, value, verifies, wrote) ==
    [op |-> op, ret |-> ret, value |-> value, verifies |-> verifies, wrote |-> wrote,
     raw |-> None, fault |-> FALSE]

\* np.zeros(n, dtype=np.float16)
ones(n) == [k \in 1..n |-> R(1)]
zeros(n) == [k \in 1..n |-> R(0)]

\* np.roll(a, shift): the element at (0-based) index j moves to (j + shift) mod n
roll(a, shift) == [k \in 1..Len(a) |-> a[((k - 1 - shift) % Len(a)) + 1]]

\* rolled[rolled.astype(bool)]: the elements that are not zero, in order
nonzero(a) == SelectSeq(a, LAMBDA x : x[1] # 0)

\* Sensor.data (property)
data == nonzero(roll(_data, _data_length - _i))

\* Sensor.get: the most recent reading, or the RuntimeWarning
getRaises == _last_timestamp = -1
getValue == _data[((_i - 1) % _data_length) + 1]

\* AnalogSensor._convert, SFM3200._convert, SimSensor._convert
AnalogSensor_convert(raw, cal) ==
    RDiv(RMul(cal.conversion_factor, RSub(raw, cal.offset_voltage)), cal.output_span)
SFM3200_convert(raw) == RDiv(RSub(raw, R(FLOW_OFFSET)), R(FLOW_SCALE_FACTOR))
SimSensor_convert(raw) == raw

_convert(raw, cal) ==
    CASE kind = "AnalogSensor" -> AnalogSensor_convert(raw, cal)
      [] kind = "SFM3200" -> SFM3200_convert(raw)
      [] kind = "SimSensor" -> SimSensor_convert(raw)

\* A rejection that moves the offset up to the value
AnalogSensor_verifyRaising(value, cal) ==
    LET scaled == RDiv(value, cal.conversion_factor)
        report == RLe(R(0), scaled) /\ RLe(scaled, R(1))
        offset == RMax(cal.offset_voltage, value)
        span == RMax(cal.output_span, RSub(value, offset))
    IN  IF report
        THEN [report |-> TRUE, cal |-> cal]
        ELSE [report |-> FALSE,
              cal |-> [cal EXCEPT !.offset_voltage = offset, !.output_span = span]]

\* A rejection that widens the range by one step at each call
AnalogSensor_verifyStepping(value, cal) ==
    LET scaled == RDiv(value, cal.conversion_factor)
        report == RLe(R(0), scaled) /\ RLe(scaled, R(1))
        offset == RSub(cal.offset_voltage, R(1))
        span == RAdd(cal.output_span, R(1))
    IN  IF report
        THEN [report |-> TRUE, cal |-> cal]
        ELSE [report |-> FALSE,
              cal |-> [cal EXCEPT !.offset_voltage = offset, !.output_span = span]]

\* A check of the upper bound alone
AnalogSensor_verifyUpperOnly(value, cal) ==
    LET scaled == RDiv(value, cal.conversion_factor)
        report == RLe(scaled, R(1))
        offset == RMin(cal.offset_voltage, value)
        span == RMax(cal.output_span, RSub(value, offset))
    IN  IF report
        THEN [report |-> TRUE, cal |-> cal]
        ELSE [report |-> FALSE,
              cal |-> [cal EXCEPT !.offset_voltage = offset, !.output_span = span]]

\* AnalogSensor._verify: the report, and the calibration it leaves
AnalogSensor_verify(value, cal) ==
    LET scaled == RDiv(value, cal.conversion_factor)
        report == RLe(R(0), scaled) /\ RLe(scaled, R(1))
        offset == RMin(cal.offset_voltage, value)
        span == RMax(cal.output_span, RSub(value, offset))
    IN  IF report
        THEN [report |-> TRUE, cal |-> cal]
        ELSE [report |-> FALSE,
              cal |-> [cal EXCEPT !.offset_voltage = offset, !.output_span = span]]

\* SFM3200._verify
SFM3200_verify(value, cal) == [report |-> TRUE, cal |-> cal]

\* SimSensor._verify: False when random() > .999
SimSensor_verify(value, cal, rnd) ==
    [report |-> IF RLt(<< 999, 1000 >>, rnd) THEN FALSE ELSE TRUE, cal |-> cal]

_verify(value, cal, rnd) ==
    CASE kind = "AnalogSensor" -> AnalogSensor_verify(value, cal)
      [] kind = "SFM3200" -> SFM3200_verify(value, cal)
      [] kind = "SimSensor" -> SimSensor_verify(value, cal, rnd)

\* SimSensor._raw_read: a fresh draw when the cursor is 0, else a step from get()
SimSensor_raw_read(rnd) ==
    IF _i = 0
    THEN [raised |-> "", raw |-> RAdd(low, RMul(rnd, high))]
    ELSE IF getRaises
         THEN [raised |-> "RuntimeWarning", raw |-> None]
         ELSE [raised |-> "",
               raw |-> RAdd(getValue, RMul(rnd, RDiv(high, R(100))))]

\* What the device answers to one update(): a voltage, a word, or the
\* values of the calls of random()
Reading(raw, r0, r1, r2) == [fault |-> FALSE, raw |-> raw, r0 |-> r0, r1 |-> r1, r2 |-> r2]
\* adc.read_conversion() or read_device() fails: the bus raises
TransportFailure == [fault |-> TRUE, raw |-> None, r0 |-> R(0), r1 |-> R(0), r2 |-> R(0)]

\* The answers of a device that works
Readings ==
    CASE kind = "AnalogSensor" -> { Reading(v, R(0), R(0), R(0)) : v \in AdcVoltages }
      [] kind = "SFM3200" -> { Reading(R(w), R(0), R(0), R(0)) : w \in FlowWords }
      [] kind = "SimSensor" ->
            { Reading(None, a, b, c) :
                  a \in Randoms, b \in {R(0), << 1023, 1024 >>}, c \in {R(0), << 1023, 1024 >>} }

DeviceInputs ==
    Readings \cup (IF kind = "SimSensor" THEN {} ELSE {TransportFailure})

\* AnalogSensor._raw_read, SFM3200._raw_read, SimSensor._raw_read: the raw
\* reading, or the exception that leaves the call
_raw_readSwallowing(inp) ==
    IF kind = "SimSensor" THEN SimSensor_raw_read(inp.r0)
    ELSE [raised |-> "", raw |-> IF inp.fault THEN R(0) ELSE inp.raw]
_raw_read(inp) ==
    IF kind = "SimSensor" THEN SimSensor_raw_read(inp.r0)
    ELSE IF inp.fault THEN [raised |-> "TransportError", raw |-> None]
    ELSE [raised |-> "", raw |-> inp.raw]

calibration ==
    [offset_voltage |-> offset_voltage, output_span |-> output_span,
     conversion_factor |-> conversion_factor]

\* Sensor.update, line 33: the value update() returns
ReturnSecondVerify(first, second) == second

\* Sensor.__store_last: the array and the cursor after storing value
StoredArray(value) == [_data EXCEPT ![_i + 1] = Float16(value)]
NextCursor == (_i + 1) % _data_length

\* Sensor.update, line 32: the timestamp of a stored observation
StampNever(now) == _last_timestamp
Stamp(now) == now

\* Sensor.update with the device answering inp and the clock at now: read,
\* verify, store, stamp, then verify again for the value returned
updateWith(inp, now) ==
    /\ UNCHANGED alarmVars
    /\ nUpdates' = nUpdates + 1
    /\ LET read == _raw_read(inp)
           value == _convert(read.raw, calibration)
           first == _verify(value, calibration, inp.r1)
           second == _verify(value, first.cal, inp.r2)
           ret == ReturnSecondVerify(first, second).report
       IN  IF read.raised # ""
           THEN /\ last' = [Call("update", read.raised, None, 0, FALSE)
                               EXCEPT !.fault = inp.fault]
                /\ UNCHANGED << clock, attributes, stored, everTrue, okValue >>
           ELSE /\ IF first.report
                   THEN /\ _data' = StoredArray(value)
                        /\ _i' = NextCursor
                        /\ clock' = now
                        /\ _last_timestamp' = Stamp(now)
                        /\ stored' = Append(stored, _data'[_i + 1])
                   ELSE UNCHANGED << _data, _i, clock, _last_timestamp, stored >>
                /\ offset_voltage' = second.cal.offset_voltage
                /\ output_span' = second.cal.output_span
                /\ conversion_factor' = second.cal.conversion_factor
                /\ last' = [Call("update", IF ret THEN "True" ELSE "False",
                                 value, 2, first.report)
                               EXCEPT !.raw = read.raw, !.fault = inp.fault]
                /\ everTrue' = (everTrue \/ ret)
                /\ okValue' = IF ret /\ first.report THEN _data'[_i + 1] ELSE okValue
                /\ UNCHANGED << kind, _data_length, low, high >>
    /\ UNCHANGED << replaced, resized, discarded >>

\* Sensor.update
update ==
    /\ UNCHANGED analogVars
    /\ nUpdates < MaxUpdates
    /\ \E inp \in DeviceInputs :
          \E now \in (IF inp.fault THEN {clock} ELSE TimeValues) : updateWith(inp, now)

\* Sensor.get
get ==
    /\ UNCHANGED << alarmVars, analogVars >>
    /\ last' = IF getRaises
               THEN Call("get", "RuntimeWarning", None, 0, FALSE)
               ELSE Call("get", "value", getValue, 0, FALSE)
    /\ UNCHANGED << clock, attributes, nUpdates, stored, everTrue, okValue, replaced,
                    resized, discarded >>

\* Sensor.reset, lines 52-53, for a capacity of n: a new array of zeros and
\* the cursor at 0
ResetKeeping(n) ==
    /\ _data' = [k \in 1..n |-> IF k <= Len(_data) THEN _data[k] ELSE R(0)]
    /\ _i' = _i % n
    /\ stored' = << >>
    /\ discarded' = (discarded \/ data # << >>)
ResetTo(n) ==
    /\ _data' = zeros(n)
    /\ _i' = 0
    /\ stored' = << >>
    /\ discarded' = (discarded \/ data # << >>)

\* Sensor.reset
reset ==
    /\ UNCHANGED << alarmVars, analogVars >>
    /\ ResetTo(_data_length)
    /\ last' = Call("reset", "None", None, 0, FALSE)
    /\ replaced' = TRUE
    /\ UNCHANGED << clock, kind, _data_length, _last_timestamp, offset_voltage,
                    output_span, conversion_factor, low, high,
                    nUpdates, everTrue, okValue, resized >>

\* Sensor.data_length (setter): the new length, then reset()
set_data_length ==
    /\ UNCHANGED << alarmVars, analogVars >>
    /\ \E new_data_length \in 1..MaxCap :
          /\ _data_length' = new_data_length
          /\ ResetTo(new_data_length)
    /\ last' = Call("data_length", "None", None, 0, FALSE)
    /\ replaced' = TRUE
    /\ resized' = TRUE
    /\ UNCHANGED << clock, kind, _last_timestamp, offset_voltage,
                    output_span, conversion_factor, low, high,
                    nUpdates, everTrue, okValue >>

\* ---------------------------------------------- AnalogSensor construction

\* The names adc.USER_CONFIGURABLE_FIELDS holds, and the value each field
\* has on the ADC: getattr(adc.config, fld).unpack(adc.cfg)
USER_CONFIGURABLE_FIELDS == << "MUX", "PGA" >>
AdcFields == { USER_CONFIGURABLE_FIELDS[k] : k \in 1..Len(USER_CONFIGURABLE_FIELDS) }
AdcCfg == [MUX |-> 0, PGA |-> 4]

DEFAULT_CALIBRATION ==
    [offset_voltage |-> R(DEFAULT_offset_voltage),
     output_span |-> R(DEFAULT_output_span),
     conversion_factor |-> R(DEFAULT_conversion_factor)]

\* The keyword arguments of a caller: any set of these names, each with
\* a value that the back-filling would not give
Supplied ==
    [MUX |-> 1, PGA |-> 2, offset_voltage |-> << 1, 2 >>, output_span |-> R(4),
     conversion_factor |-> R(2), pig |-> "pi", gain |-> 3]
Kwargs == { [f \in names |-> Supplied[f]] : names \in SUBSET DOMAIN Supplied }

Raised(error) == [raised |-> error, attrs |-> << >>]
Object(attrs) == [raised |-> "", attrs |-> attrs]

\* AnalogSensor._fill_attr: the fields not set yet take the ADC's value or
\* the default calibration
_fill_attr(attrs) ==
    [f \in DOMAIN attrs \cup AdcFields \cup DOMAIN DEFAULT_CALIBRATION |->
        IF f \in DOMAIN attrs THEN attrs[f]
        ELSE IF f \in AdcFields THEN AdcCfg[f]
        ELSE DEFAULT_CALIBRATION[f]]

\* A check that sets what it knows and ignores the rest
_check_and_set_attrLenient(kw) ==
    LET allowed == AdcFields \cup DOMAIN DEFAULT_CALIBRATION
    IN  Object(_fill_attr([f \in DOMAIN kw \cap allowed |-> kw[f]]))

\* AnalogSensor._check_and_set_attr: sets the allowed fields, raises when
\* one was not allowed, fills the others in
_check_and_set_attr(kw) ==
    LET allowed == AdcFields \cup DOMAIN DEFAULT_CALIBRATION
        set == { f \in DOMAIN kw : f \in allowed }
        result == Cardinality(set)
    IN  IF result # Cardinality(DOMAIN kw)
        THEN Raised("TypeError")
        ELSE Object(_fill_attr([f \in set |-> kw[f]]))

\* AnalogSensor.__init__: what AnalogSensor(adc, **kw) gives
AnalogSensor_init(kw) ==
    IF "MUX" \notin DOMAIN kw
    THEN Raised("TypeError")
    ELSE _check_and_set_attr([f \in DOMAIN kw \ {"pig"} |-> kw[f]])

\* A caller constructs an AnalogSensor
construct ==
    /\ built = None
    /\ built' = Some(AnalogSensor_init(kwargs))
    /\ UNCHANGED << clock, alarmVars, sensorVars, kwargs, calib >>

\* ----------------------------------------------- AnalogSensor.calibrate()

\* The updates of a calibration, and the observations it takes the minimum of
CALIBRATION_UPDATES == 50
CALIBRATION_WINDOW == 50

\* No calibrate() call
Idle == [pc |-> "idle", n |-> 0, error |-> ""]

\* What the ADC delivers during a calibration: any voltage for the first
\* MaxUpdates updates of the sensor, one voltage from then on
SteadyVoltage == << 5, 2 >>
CalibrationReadings ==
    IF nUpdates < MaxUpdates THEN Readings
    ELSE { Reading(SteadyVoltage, R(0), R(0), R(0)) }

\* s[-n:] and np.min(s)
slice_last(s, n) == SubSeq(s, IF Len(s) > n THEN Len(s) - n + 1 ELSE 1, Len(s))
np_min(s) == CHOOSE m \in { s[k] : k \in 1..Len(s) } : \A k \in 1..Len(s) : RLe(m, s[k])

\* calibrate(), lines 167-174: one pass of the loop, update() and then the
\* print of self.data[self.data.shape[0] - 1], which raises IndexError on
\* an empty array
calibrate_update ==
    /\ kind = "AnalogSensor"
    /\ calib.pc \in {"idle", "loop"}
    /\ calib.n < CALIBRATION_UPDATES
    /\ \E inp \in CalibrationReadings, now \in TimeValues : updateWith(inp, now)
    /\ calib' = IF data' = << >>
                THEN [pc |-> "raised", n |-> calib.n + 1, error |-> "IndexError"]
                ELSE [pc |-> "loop", n |-> calib.n + 1, error |-> ""]
    /\ UNCHANGED << kwargs, built >>

\* calibrate(), line 175: self.offset_voltage = np.min(self.data[-50:]),
\* which raises ValueError on an empty array
calibrate_offset ==
    /\ calib.pc = "loop"
    /\ calib.n = CALIBRATION_UPDATES
    /\ IF data = << >>
       THEN /\ calib' = [calib EXCEPT !.pc = "raised", !.error = "ValueError"]
            /\ UNCHANGED offset_voltage
       ELSE /\ calib' = [calib EXCEPT !.pc = "done"]
            /\ offset_voltage' = np_min(slice_last(data, CALIBRATION_WINDOW))
    /\ last' = Call("calibrate", IF data = << >> THEN "ValueError" ELSE "None", None, 0, FALSE)
    /\ UNCHANGED << clock, alarmVars, kwargs, built >>
    /\ UNCHANGED << kind, _data, _i, _data_length, _last_timestamp, output_span,
                    conversion_factor, low, high, nUpdates, stored, everTrue,
                    okValue, replaced, resized, discarded >>

InitAnalog ==
    /\ kwargs = << >>
    /\ built = None
    /\ calib = Idle

\* Sensor.__init__, AnalogSensor.__init__, SFM3200.__init__, SimSensor.__init__:
\* the sensor after construction
InitSensor ==
    /\ kind \in SensorKinds
    /\ _data = zeros(DEFAULT_STORED_OBSERVATIONS)
    /\ _i = 0
    /\ _data_length = DEFAULT_STORED_OBSERVATIONS
    /\ _last_timestamp = -1
    /\ \E cal \in (IF kind = "AnalogSensor" THEN Calibrations
                   ELSE {[offset_voltage |-> None, output_span |-> None,
                          conversion_factor |-> None]}) :
          /\ offset_voltage = cal.offset_voltage
          /\ output_span = cal.output_span
          /\ conversion_factor = cal.conversion_factor
    /\ low = IF kind = "SimSensor" THEN R(DEFAULT_low) ELSE None
    /\ high = IF kind = "SimSensor" THEN R(DEFAULT_high) ELSE None
    /\ nUpdates = 0
    /\ stored = << >>
    /\ last = Call("none", "None", None, 0, FALSE)
    /\ everTrue = FALSE
    /\ okValue = None
    /\ replaced = FALSE
    /\ resized = FALSE
    /\ discarded = FALSE

InitAlarm ==
    /\ clock = 0
    /\ id_counter = 0
    /\ allocated = << >>
    /\ alarms = << >>
    /\ pc = [t \in Threads |-> "idle"]
    /\ building = [t \in Threads |-> NoAlarm]
    /\ target = [t \in Threads |-> 0]
    /\ endWrites = << >>
    /\ deactivations = << >>
    /\ firstEnd = << >>
    /\ calls = << >>

vars == << clock, alarmVars, sensorVars, analogVars >>

Init == InitAlarm /\ InitSensor /\ InitAnalog

\* The alarm specifications leave one sensor aside, untouched
InitAlarms == Init /\ kind = "SFM3200"
\* The sensor specification constructs no alarm
InitSensors == Init
\* calibrate() is a method of the AnalogSensor
InitCalibrate == Init /\ kind = "AnalogSensor"
\* The construction of an AnalogSensor, for every set of keyword arguments
InitConstruct ==
    /\ InitAlarm
    /\ InitSensor
    /\ kind = "AnalogSensor"
    /\ offset_voltage = R(DEFAULT_offset_voltage)
    /\ kwargs \in Kwargs
    /\ built = None
    /\ calib = Idle

AlarmStep(t) ==
    \/ Alarm_init_id(t)
    \/ Alarm_init_fields(t)
    \/ deactivate_test(t)
    \/ deactivate_end_time(t)
    \/ deactivate_active(t)

SensorStep ==
    \/ update
    \/ get
    \/ reset
    \/ set_data_length

NextAlarm == \E t \in Threads : AlarmStep(t)
NextAlarmInit == \E t \in Threads : Alarm_init_id(t) \/ Alarm_init_fields(t)
NextAlarmSeq == \E t \in SeqThreads : AlarmStep(t)
NextSensor == SensorStep
NextConstruct == construct
NextCalibrate == calibrate_update \/ calibrate_offset

\* Alarms constructed and deactivated by concurrent callers
SpecAlarm == InitAlarms /\ [][NextAlarm]_vars
\* Alarms constructed and deactivated by one caller, one call after another
SpecAlarmSeq == InitAlarms /\ [][NextAlarmSeq]_vars
\* Alarms constructed by concurrent callers, none deactivated
SpecAlarmInit == InitAlarms /\ [][NextAlarmInit]_vars
\* One sensor, one caller
SpecSensor == InitSensors /\ [][NextSensor]_vars
\* One AnalogSensor and one automatic calibrate()
SpecCalibrate == InitCalibrate /\ [][NextCalibrate]_vars
\* One AnalogSensor constructed
SpecConstruct == InitConstruct /\ [][NextConstruct]_vars


\* ------------------------------------------------------------ Alarm claims

\* No thread is inside deactivate() on alarm a
Quiescent(a) == \A t \in Threads : target[t] # a

\* C1: when callers run deactivate() concurrently on one active alarm,
\* end_time is written exactly once, active goes from true to false exactly
\* once, and no caller overwrites the end_time the first one set.
C1_DeactivateExactlyOnce ==
    \A a \in 1..Len(alarms) :
        /\ endWrites[a] <= 1
        /\ deactivations[a] <= 1
        /\ (endWrites[a] >= 1 => alarms[a].end_time = firstEnd[a])

\* C2: the ids assigned by concurrent constructions are strictly increasing
\* in the order the shared counter was advanced, and pairwise distinct over
\* all the objects constructed and under construction.
C2_IdsDistinctIncreasing ==
    /\ \A i, j \in 1..Len(allocated) : i < j => allocated[i] < allocated[j]
    /\ \A a, b \in 1..Len(alarms) : a # b => alarms[a].id # alarms[b].id
    /\ \A t, u \in Threads :
          (t # u /\ pc[t] = "init" /\ pc[u] = "init") => building[t].id # building[u].id
    /\ \A t \in Threads : \A a \in 1..Len(alarms) :
          pc[t] = "init" => building[t].id # alarms[a].id
    /\ \A a \in 1..Len(alarms) : \E i \in 1..Len(allocated) : allocated[i] = alarms[a].id

\* C2's case: two callers constructed concurrently, and the one that
\* advanced the counter second finished its construction first.
C2_Witness ==
    /\ Len(alarms) = 2
    /\ alarms[1].id > alarms[2].id

\* C3 as stated: whenever no deactivate() is in progress on an alarm, its
\* end_time is present if and only if active is false.
C3_EndTimeIffInactive ==
    \A a \in 1..Len(alarms) :
        Quiescent(a) => ((alarms[a].end_time # None) <=> ~alarms[a].active)

\* C3 as amended: whenever no deactivate() is in progress on an alarm, its
\* end_time is present if and only if active is false and the severity is
\* not OFF; an alarm of severity OFF is inactive with end_time absent.
C3_EndTimeIffDeactivated ==
    \A a \in 1..Len(alarms) :
        Quiescent(a) =>
            /\ (alarms[a].end_time # None) <=>
                   (~alarms[a].active /\ alarms[a].severity # "OFF")
            /\ alarms[a].severity = "OFF" =>
                   (~alarms[a].active /\ alarms[a].end_time = None)

\* C3's case: an alarm of severity OFF on which deactivate() has returned,
\* beside an alarm that deactivate() took from active to inactive.
C3_Witness ==
    \E a, b \in 1..Len(alarms) :
        /\ Quiescent(a) /\ Quiescent(b)
        /\ alarms[a].severity = "OFF" /\ calls[a] >= 1
        /\ alarms[b].severity # "OFF" /\ calls[b] >= 1 /\ alarms[b].end_time # None

\* C4: with one caller, once a deactivate() call on an alarm has returned the
\* alarm is inactive with end_time the value the first call wrote (absent if
\* it wrote none), and no later step changes any field of the alarm.
C4_SecondDeactivateNoOp ==
    /\ [](\A a \in 1..Len(alarms) :
            (calls[a] >= 1 /\ Quiescent(a)) =>
                (~alarms[a].active /\ alarms[a].end_time = firstEnd[a]))
    /\ [][\A a \in 1..Len(alarms) : calls[a] >= 1 => alarms'[a] = alarms[a]]_vars

\* C4's case: two calls or more have returned on an alarm that was active.
C4_Witness ==
    \E a \in 1..Len(alarms) :
        /\ calls[a] >= 2
        /\ endWrites[a] = 1
        /\ alarms[a].end_time = firstEnd[a]
        /\ clock > firstEnd[a][1]


\* ----------------------------------------------------------- Sensor claims

\* The last n elements of a sequence
LastN(s, n) == SubSeq(s, Len(s) - n + 1, Len(s))
Min(a, b) == IF a < b THEN a ELSE b
Elements(s) == { s[k] : k \in 1..Len(s) }

\* C5: for every capacity and every sequence of N stored observations, a
\* zero among them included, data is the last min(N, capacity) stored
\* values, oldest first.
C5_DataIsLastStored ==
    data = LastN(stored, Min(Len(stored), _data_length))

\* C6: each update() calls _verify exactly once.
C6_VerifyOnce ==
    (last.op = "update" /\ last.ret \in {"True", "False"}) => last.verifies = 1

\* C7: update() returns True if and only if that call stored the value and
\* stamped the time; when it returns False the array, the cursor and the
\* timestamp are as before the call.
C7_TrueIffStored ==
    [][(last'.op = "update" /\ nUpdates' = nUpdates + 1) =>
          /\ (last'.ret = "True") <=>
                (/\ last'.wrote
                 /\ _data' = StoredArray(last'.value)
                 /\ _i' = NextCursor
                 /\ _last_timestamp' = clock')
          /\ (last'.ret = "False") =>
                (~last'.wrote /\ UNCHANGED << _data, _i, _last_timestamp >>)]_vars

\* C8: on a sensor whose array was never replaced, get() raises as long as
\* no update() has returned True, and once one has, get() returns the value
\* stored by the last update() that returned True.
C8_GetAfterSuccess ==
    ~replaced =>
        IF everTrue THEN ~getRaises /\ getValue = okValue ELSE getRaises

\* C9: once data_length has been assigned, data is empty right after the
\* assignment, is never longer than the capacity assigned, and holds only
\* values stored since.
C9_ResizeDiscardsHistory ==
    resized =>
        /\ Len(_data) = _data_length
        /\ Len(data) <= _data_length
        /\ Elements(data) \subseteq Elements(stored)
        /\ (last.op = "data_length" => data = << >> /\ _i = 0)

\* C9's case: an assignment discarded a history that was not empty, and the
\* updates since have filled the new, smaller array and wrapped around.
C9_Witness ==
    /\ resized
    /\ discarded
    /\ _data_length < DEFAULT_STORED_OBSERVATIONS
    /\ Len(stored) > _data_length
    /\ Len(data) = _data_length

\* C10: reset() leaves an array of zeros of the current capacity (data is
\* empty) and the cursor at 0, and changes neither the capacity nor the
\* calibration of an AnalogSensor.
C10_ResetFrame ==
    [][last'.op = "reset" =>
          /\ data' = << >>
          /\ _data' = zeros(_data_length)
          /\ _i' = 0
          /\ UNCHANGED << _data_length, offset_voltage, output_span, conversion_factor >>]_vars

\* C10's case: reset() has just discarded the history of an AnalogSensor
\* whose calibration a rejected reading had adapted.
C10_Witness ==
    /\ last.op = "reset"
    /\ discarded
    /\ kind = "AnalogSensor"
    /\ \A cal \in Calibrations : offset_voltage # cal.offset_voltage
    /\ data = << >>

\* An update() of an AnalogSensor has just read and converted a voltage
AnalogUpdated ==
    /\ kind = "AnalogSensor"
    /\ last'.op = "update"
    /\ nUpdates' = nUpdates + 1
    /\ last'.raw # None

\* C11: when the converted value of a raw voltage is negative, the reading
\* is rejected and offset_voltage afterwards is at most the smaller of the
\* offset_voltage before and the raw voltage.
C11_OffsetFollowsRaw ==
    [][(AnalogUpdated /\ RLt(last'.value, R(0))) =>
          /\ last'.ret = "False"
          /\ RLe(offset_voltage', RMin(offset_voltage, last'.raw))]_vars

\* C12: update() of an AnalogSensor accepts a reading exactly when
\* 0 <= value / conversion_factor <= 1 for value = conversion_factor *
\* (raw - offset_voltage) / output_span; an accepted reading is stored as
\* the latest observation and leaves the calibration unchanged.
C12_AcceptsIffInRange ==
    [][AnalogUpdated =>
          LET value == RDiv(RMul(conversion_factor, RSub(last'.raw, offset_voltage)),
                            output_span)
              scaled == RDiv(value, conversion_factor)
              accepted == RLe(R(0), scaled) /\ RLe(scaled, R(1))
          IN  /\ last'.value = value
              /\ (last'.ret = "True") <=> accepted
              /\ last'.wrote <=> accepted
              /\ accepted =>
                    /\ ~getRaises'
                    /\ getValue' = Float16(value)
                    /\ stored' = Append(stored, Float16(value))
                    /\ UNCHANGED << offset_voltage, output_span, conversion_factor >>]_vars

\* C12's case: with conversion_factor 1, offset_voltage 0 and output_span 5
\* the raw voltage 2.5 was accepted and 0.5 is the latest observation.
C12_Witness ==
    /\ kind = "AnalogSensor"
    /\ conversion_factor = R(1) /\ offset_voltage = R(0) /\ output_span = R(5)
    /\ last.op = "update" /\ last.ret = "True" /\ last.wrote
    /\ last.raw = << 5, 2 >>
    /\ getValue = << 1, 2 >>

\* The names a caller may supply
AllowedNames == AdcFields \cup {"offset_voltage", "output_span", "conversion_factor"}

C14_TransportFailurePropagates ==
    [][(last'.op = "update" /\ nUpdates' = nUpdates + 1 /\ last'.fault) =>
          /\ last'.ret = "TransportError"
          /\ ~last'.wrote
          /\ UNCHANGED << _data, _i, _data_length, _last_timestamp,
                          offset_voltage, output_span, conversion_factor >>]_vars

\* C14's case: the device failed during an update() of a sensor that held
\* observations.
C14_Witness ==
    /\ last.op = "update"
    /\ last.fault
    /\ last.ret = "TransportError"
    /\ stored # << >>
    /\ _i # 0
    /\ _last_timestamp # -1

\* An update() of a SimSensor has just drawn a raw reading
SimUpdated ==
    /\ kind = "SimSensor"
    /\ last'.op = "update"
    /\ nUpdates' = nUpdates + 1
    /\ last'.raw # None

\* C15: the raw read of a SimSensor draws afresh from [low, low + high)
\* only while no update() has ever stored a value; once an update() has
\* succeeded, whatever the capacity and wherever the cursor, it returns the
\* last stored value plus a step in [0, high / 100).
C15_FreshDrawOnlyAtFirst ==
    [][SimUpdated =>
          /\ (_last_timestamp = -1) =>
                (RLe(low, last'.raw) /\ RLt(last'.raw, RAdd(low, high)))
          /\ (everTrue /\ stored # << >>) =>
                LET step == RSub(last'.raw, stored[Len(stored)])
                IN  RLe(R(0), step) /\ RLt(step, RDiv(high, R(100)))]_vars

\* C16: automatic calibrate() completes after its updates whatever the ADC
\* delivers, rejected readings and readings converting to zero included:
\* no exception leaves it, and on completion offset_voltage is the least of
\* the values observed over the trailing window.
C16_CalibrateCompletes ==
    /\ calib.pc # "raised"
    /\ calib.pc = "done" =>
          offset_voltage = np_min(slice_last(stored, CALIBRATION_WINDOW))

\* C17: once reset() or an assignment to data_length has emptied the array
\* of a sensor that had stored observations, get() raises until the next
\* update() stores one, and it never returns a value that was not stored
\* into the current array.
C17_GetAfterResetRaises ==
    [][(last'.op = "get" /\ replaced /\ _last_timestamp # -1) =>
          IF stored = << >>
          THEN last'.ret = "RuntimeWarning"
          ELSE last'.ret = "value" /\ last'.value \in Elements(stored)]_vars

\* C18: over the calls made on an AnalogSensor whose output_span starts
\* positive, offset_voltage never increases, output_span never decreases,
\* conversion_factor never changes, and output_span is positive in every
\* state.
C18_CalibrationMonotone ==
    /\ [](kind = "AnalogSensor" => RLt(R(0), output_span))
    /\ [][kind = "AnalogSensor" =>
             /\ RLe(offset_voltage', offset_voltage)
             /\ RLe(output_span, output_span')
             /\ conversion_factor' = conversion_factor]_vars

\* C18's case: rejected readings have lowered the offset and widened the
\* span of an AnalogSensor.
C18_Witness ==
    /\ kind = "AnalogSensor"
    /\ last.op = "update"
    /\ last.ret = "False"
    /\ \E cal \in Calibrations :
          /\ conversion_factor = cal.conversion_factor
          /\ RLt(offset_voltage, cal.offset_voltage)
          /\ RLt(cal.output_span, output_span)

\* C19: _verify of an AnalogSensor is idempotent for a fixed value: a
\* second call right after the first returns the same boolean and leaves
\* offset_voltage and output_span as the first left them; so the two calls
\* made by one update() agree, and update() returns True exactly when it
\* stored the value.
C19_VerifyIdempotent ==
    [][AnalogUpdated =>
          LET first == AnalogSensor_verify(last'.value, calibration)
              second == AnalogSensor_verify(last'.value, first.cal)
          IN  /\ second = first
              /\ offset_voltage' = first.cal.offset_voltage
              /\ output_span' = first.cal.output_span
              /\ conversion_factor' = first.cal.conversion_factor
              /\ (last'.ret = "True") <=> last'.wrote]_vars

\* C19's case: one update() of an AnalogSensor called _verify twice on a
\* value below the range; the first call lowered the offset to the value
\* and the second found it there.
C19_Witness ==
    /\ kind = "AnalogSensor"
    /\ last.op = "update"
    /\ last.verifies = 2
    /\ last.ret = "False"
    /\ ~last.wrote
    /\ RLt(last.value, R(0))
    /\ offset_voltage = last.value

\* C20: over the update(), reset() and data_length calls made on a
\* SimSensor, the raw read never raises the uninitialized-read warning:
\* whenever the cursor is not 0 the timestamp is set.
C20_SimRawReadNeverRaises ==
    kind = "SimSensor" =>
        /\ _i # 0 => _last_timestamp # -1
        /\ last.op = "update" => last.ret \in {"True", "False"}

\* C20's case: a SimSensor whose array was reset and resized has stored
\* again, and its last raw read was a step from get() with the cursor off 0.
C20_Witness ==
    /\ kind = "SimSensor"
    /\ replaced
    /\ resized
    /\ last.op = "update"
    /\ last.wrote
    /\ Len(stored) >= 2
    /\ _i # 0

=============================================================================
